---- MODULE Spec2Model ----
(***************************************************************************)
(* A model of the TTL cache of src/cache.go: a map from key to             *)
(* (object, expiration) guarded by one lock, a wall clock, and the         *)
(* background cleanUp goroutine started by NewCache.                       *)
(*                                                                         *)
(* Every exported method takes c.mu on entry and releases it by defer on   *)
(* return.  Spec takes a handler as one atomic step on the map; ConcSpec   *)
(* takes the handlers of two goroutines and the scan of the sweeper apart  *)
(* at c.mu, one map access per step.  One clock unit is an arbitrary       *)
(* number of nanoseconds; the ticker period may be shorter than a unit, so *)
(* a tick may become ready at any moment while the ticker lives.           *)
(***************************************************************************)
EXTENDS Integers, FiniteSets, TLC

\* ------------------------------------------------------------- constants
DefaultExpiration == 0
NoExpiration == -1

\* ------------------------------------------------------- sizes of the model
MaxTime == 2
MaxDuration == 2
\* the bits of the machine integer that stands for int64
IntBits == 4

Keys == {"aKey", "bKey"}
Objects == {"aValue", "a2Value"}
Nil == "nil"
\* DefaultExpiration, NoExpiration, another negative duration, and positive ones
Durations == (0 - 2) .. MaxDuration
CleanupIntervals == {0, 1}

\* the largest and the smallest int64
MaxInt64 == 2 ^ (IntBits - 1) - 1
MinInt64 == 0 - 2 ^ (IntBits - 1)

\* int64 arithmetic wraps around
toInt64(x) == ((x - MinInt64) % (2 ^ IntBits)) + MinInt64

ErrItemAlreadyExists == "item already exists"
ErrItemNotFound == "item not found"

VARIABLES
    items,              \* c.items: a function from the stored keys to items
    defaultExpiration,  \* c.defaultExpiration
    stop,               \* c.stop: "open" or "closed"
    wg,                 \* c.wg: the WaitGroup counter
    sweeper,            \* the cleanUp goroutine: "none", "select", "lock", "scan"
                        \* or "done"
    tickReady,          \* t.C holds a tick
    stopPc,             \* the first Stop call: "idle", "waiting" or "returned"
    panicked,           \* close of a closed channel brought the program down
    now,                \* time.Now().UnixNano(), in clock units
    last,               \* the last completed call and what it returned
    hist,               \* per key, the last successful write since Delete/Flush
    stopCalls,          \* the number of Stop calls made so far
    mu,                 \* c.mu: the goroutine holding it for writing, and the readers
    procs               \* per calling goroutine, the call in flight and where it is

vars == <<items, defaultExpiration, stop, wg, sweeper, tickReady, stopPc,
          panicked, now, last, hist, stopCalls, mu, procs>>

\* ------------------------------------------------------------ map helpers
\* the zero value a Go map lookup yields for a key that is not stored
zeroItem == [object |-> Nil, expiration |-> 0]

found(m, key) == key \in DOMAIN m

lookup(m, key) == IF key \in DOMAIN m THEN m[key] ELSE zeroItem

put(m, key, it) == [x \in (DOMAIN m) \cup {key} |-> IF x = key THEN it ELSE m[x]]

delete(m, key) == [x \in (DOMAIN m) \ {key} |-> m[x]]

emptyMap == [x \in {} |-> zeroItem]

\* -------------------------------------------------------------- handlers
\* a constructor that allocates the map with one zero entry in it
NewCachePreloaded(de, ci) ==
    [items |-> put(emptyMap, "", zeroItem),
     defaultExpiration |-> IF de <= 0 THEN NoExpiration ELSE de,
     stop |-> "open",
     wg |-> IF ci > 0 THEN 1 ELSE 0,
     sweeper |-> IF ci > 0 THEN "select" ELSE "none"]

\* NewCache: the cache after construction
NewCache(de, ci) ==
    [items |-> emptyMap,
     defaultExpiration |-> IF de <= 0 THEN NoExpiration ELSE de,
     stop |-> "open",
     wg |-> IF ci > 0 THEN 1 ELSE 0,
     sweeper |-> IF ci > 0 THEN "select" ELSE "none"]

\* a set that keeps the entry it overwrites under a key of its own
setKeepsOld(key, object, duration) ==
    LET d == IF duration = DefaultExpiration THEN defaultExpiration ELSE duration
        expiration == IF d > 0 THEN now + d ELSE 0
        kept == IF found(items, key) THEN put(items, "", items[key]) ELSE items
    IN  put(kept, key, [object |-> object, expiration |-> expiration])

\* a set that takes DefaultExpiration for a duration of its own
setDefaultNever(key, object, duration) ==
    LET expiration == IF duration > 0 THEN now + duration ELSE 0
    IN  put(items, key, [object |-> object, expiration |-> expiration])

\* c.set: the map after storing object under key; UnixNano() of a time past
\* the range of int64 is the wrapped sum
set(key, object, duration) ==
    LET d == IF duration = DefaultExpiration THEN defaultExpiration ELSE duration
        expiration == IF d > 0 THEN toInt64(now + d) ELSE 0
    IN  put(items, key, [object |-> object, expiration |-> expiration])

\* a Set that does not overwrite a stored key
SetKeepsExisting(key, object, duration) ==
    IF found(items, key) THEN items ELSE set(key, object, duration)

\* Set: the map after the call
Set(key, object, duration) == set(key, object, duration)

\* an Add that refuses every stored key, expired or not
AddOnlyIfAbsent(key, object, duration) ==
    IF found(items, key)
    THEN [items |-> items, err |-> ErrItemAlreadyExists]
    ELSE [items |-> set(key, object, duration), err |-> Nil]

\* an Add that renews the deadline of the entry it refuses to replace
AddRenewsOnFailure(key, object, duration) ==
    LET item == lookup(items, key)
        isExpired == item.expiration > 0 /\ item.expiration <= now
    IN  IF found(items, key) /\ ~isExpired
        THEN [items |-> set(key, item.object, duration), err |-> ErrItemAlreadyExists]
        ELSE [items |-> set(key, object, duration), err |-> Nil]

\* Add: the map after the call and the error returned
Add(key, object, duration) ==
    LET item == lookup(items, key)
        isExpired == item.expiration > 0 /\ item.expiration <= now
    IN  IF found(items, key) /\ ~isExpired
        THEN [items |-> items, err |-> ErrItemAlreadyExists]
        ELSE [items |-> set(key, object, duration), err |-> Nil]

\* a Replace that overwrites every stored key, expired or not
ReplaceIfStored(key, object, duration) ==
    IF ~found(items, key)
    THEN [items |-> items, err |-> ErrItemNotFound]
    ELSE [items |-> set(key, object, duration), err |-> Nil]

\* a Replace that keeps the deadline of the entry it overwrites
ReplaceKeepsDeadline(key, object, duration) ==
    LET item == lookup(items, key)
        isExpired == item.expiration > 0 /\ item.expiration <= now
    IN  IF ~found(items, key) \/ isExpired
        THEN [items |-> items, err |-> ErrItemNotFound]
        ELSE [items |-> put(items, key, [object |-> object,
                                         expiration |-> item.expiration]),
              err |-> Nil]

\* a Replace that removes the expired entry it finds
ReplaceDropsExpired(key, object, duration) ==
    LET item == lookup(items, key)
        isExpired == item.expiration > 0 /\ item.expiration <= now
    IN  IF ~found(items, key) \/ isExpired
        THEN [items |-> delete(items, key), err |-> ErrItemNotFound]
        ELSE [items |-> set(key, object, duration), err |-> Nil]

\* Replace: the map after the call and the error returned
Replace(key, object, duration) ==
    LET item == lookup(items, key)
        isExpired == item.expiration > 0 /\ item.expiration <= now
    IN  IF ~found(items, key) \/ isExpired
        THEN [items |-> items, err |-> ErrItemNotFound]
        ELSE [items |-> set(key, object, duration), err |-> Nil]

\* a Get that does not look at the deadline
GetIgnoresExpiry(key) ==
    LET item == lookup(items, key)
    IN  IF ~found(items, key)
        THEN [items |-> items, object |-> Nil, found |-> FALSE]
        ELSE [items |-> items, object |-> item.object, found |-> TRUE]

\* a Get that removes the expired entry it finds
GetDeletesExpired(key) ==
    LET item == lookup(items, key)
        isExpired == item.expiration > 0 /\ item.expiration <= now
    IN  IF ~found(items, key) \/ isExpired
        THEN [items |-> delete(items, key), object |-> Nil, found |-> FALSE]
        ELSE [items |-> items, object |-> item.object, found |-> TRUE]

\* Get: the map after the call and the pair returned
Get(key) ==
    LET item == lookup(items, key)
        isExpired == item.expiration > 0 /\ item.expiration <= now
    IN  IF ~found(items, key) \/ isExpired
        THEN [items |-> items, object |-> Nil, found |-> FALSE]
        ELSE [items |-> items, object |-> item.object, found |-> TRUE]

\* a Delete that leaves an expired entry to the sweeper
DeleteIfLive(key) ==
    LET item == lookup(items, key)
        isExpired == item.expiration > 0 /\ item.expiration <= now
    IN  IF isExpired THEN items ELSE delete(items, key)

\* Delete: the map after the call
Delete(key) == delete(items, key)

\* a Flush that removes the expired entries only
FlushExpired ==
    LET expired == {key \in DOMAIN items :
                        items[key].expiration > 0 /\ items[key].expiration <= now}
    IN  [key \in (DOMAIN items) \ expired |-> items[key]]

\* Flush: the map after the call
Flush == emptyMap

\* an ItemCount that leaves out the expired entries
ItemCountLive ==
    Cardinality({key \in DOMAIN items :
                    ~(items[key].expiration > 0 /\ items[key].expiration <= now)})

\* ItemCount: the number returned
ItemCount == Cardinality(DOMAIN items)

\* cleanUp, the loop over c.items with the clock read at[key] when it comes to
\* key: the map after the scan
cleanUpScanAt(at) ==
    LET expired == {key \in DOMAIN items :
                        items[key].expiration > 0 /\ items[key].expiration <= at[key]}
    IN  [key \in (DOMAIN items) \ expired |-> items[key]]

\* a scan that removes every entry that has a deadline
cleanUpScanAnyDeadline ==
    LET expired == {key \in DOMAIN items : items[key].expiration > 0}
    IN  [key \in (DOMAIN items) \ expired |-> items[key]]

\* a scan that leaves the entry whose deadline is the present instant
cleanUpScanBeforeNow ==
    LET expired == {key \in DOMAIN items :
                        items[key].expiration > 0 /\ items[key].expiration < now}
    IN  [key \in (DOMAIN items) \ expired |-> items[key]]

\* a scan that takes the zero expiration for a deadline
cleanUpScanNoSentinel ==
    LET expired == {key \in DOMAIN items : items[key].expiration <= now}
    IN  [key \in (DOMAIN items) \ expired |-> items[key]]

\* cleanUp, the tick case: the map after one scan
cleanUpScan ==
    LET expired == {key \in DOMAIN items :
                        items[key].expiration > 0 /\ items[key].expiration <= now}
    IN  [key \in (DOMAIN items) \ expired |-> items[key]]

\* ------------------------------------------------------- call bookkeeping
\* what the last completed call was and what it returned
Ret(op, key, object, fnd, err, n) ==
    [op |-> op, key |-> key, object |-> object, found |-> fnd, err |-> err,
     n |-> n]

noWrite == [object |-> Nil, ttl |-> FALSE, deadline |-> 0]

\* the write a caller made: the object and the deadline its duration asks for
written(object, duration) ==
    LET d == IF duration = DefaultExpiration THEN defaultExpiration ELSE duration
    IN  [object |-> object, ttl |-> d > 0,
         deadline |-> IF d > 0 THEN now + d ELSE 0]

\* c.mu held by nobody
unlocked == [w |-> Nil, r |-> {}]

\* the goroutines calling the cache concurrently
Goroutines == {"g1", "g2"}

\* a goroutine with no call in flight and none made yet: pc is "idle", "lock"
\* (blocked in Lock or RLock), "held" (in the critical section, before its
\* first map access) or "checked" (Add and Replace, between the lookup and
\* c.set); seen is what hist held for the key when a Get took the lock; res is
\* what the last completed call returned
idle == [pc |-> "idle", op |-> Nil, key |-> Nil, object |-> Nil, duration |-> 0,
         seen |-> noWrite, res |-> Ret(Nil, Nil, Nil, FALSE, Nil, 0)]

cacheUnchanged == UNCHANGED <<defaultExpiration, stop, wg, sweeper, tickReady,
                              stopPc, panicked, now, stopCalls, mu, procs>>

\* ---------------------------------------------------------------- actions
Init ==
    \E de \in Durations, ci \in CleanupIntervals :
        LET c == NewCache(de, ci)
        IN  /\ items = c.items
            /\ defaultExpiration = c.defaultExpiration
            /\ stop = c.stop
            /\ wg = c.wg
            /\ sweeper = c.sweeper
            /\ tickReady = FALSE
            /\ stopPc = "idle"
            /\ panicked = FALSE
            /\ now = 1
            /\ last = [op |-> "NewCache", key |-> Nil, object |-> Nil,
                       found |-> FALSE, err |-> Nil, n |-> 0]
            /\ hist = [k \in Keys |-> noWrite]
            /\ stopCalls = 0
            /\ mu = unlocked
            /\ procs = [g \in Goroutines |-> idle]

CallSet(key, object, duration) ==
    /\ ~panicked
    /\ items' = Set(key, object, duration)
    /\ last' = Ret("Set", key, Nil, FALSE, Nil, 0)
    /\ hist' = [hist EXCEPT ![key] = written(object, duration)]
    /\ cacheUnchanged

CallAdd(key, object, duration) ==
    LET r == Add(key, object, duration)
    IN  /\ ~panicked
        /\ items' = r.items
        /\ last' = Ret("Add", key, Nil, FALSE, r.err, 0)
        /\ hist' = IF r.err = Nil
                   THEN [hist EXCEPT ![key] = written(object, duration)]
                   ELSE hist
        /\ cacheUnchanged

CallReplace(key, object, duration) ==
    LET r == Replace(key, object, duration)
    IN  /\ ~panicked
        /\ items' = r.items
        /\ last' = Ret("Replace", key, Nil, FALSE, r.err, 0)
        /\ hist' = IF r.err = Nil
                   THEN [hist EXCEPT ![key] = written(object, duration)]
                   ELSE hist
        /\ cacheUnchanged

CallGet(key) ==
    LET r == Get(key)
    IN  /\ ~panicked
        /\ items' = r.items
        /\ last' = Ret("Get", key, r.object, r.found, Nil, 0)
        /\ UNCHANGED hist
        /\ cacheUnchanged

CallDelete(key) ==
    /\ ~panicked
    /\ items' = Delete(key)
    /\ last' = Ret("Delete", key, Nil, FALSE, Nil, 0)
    /\ hist' = [hist EXCEPT ![key] = noWrite]
    /\ cacheUnchanged

CallFlush ==
    /\ ~panicked
    /\ items' = Flush
    /\ last' = Ret("Flush", Nil, Nil, FALSE, Nil, 0)
    /\ hist' = [k \in Keys |-> noWrite]
    /\ cacheUnchanged

CallItemCount ==
    /\ ~panicked
    /\ last' = Ret("ItemCount", Nil, Nil, FALSE, Nil, ItemCount)
    /\ UNCHANGED <<items, hist>>
    /\ cacheUnchanged

\* a Stop that returns at once when the channel is closed already
CallStopIdempotent ==
    /\ ~panicked
    /\ IF stop = "closed"
       THEN UNCHANGED <<stop, stopPc, panicked>>
       ELSE /\ stop' = "closed"
            /\ stopPc' = "waiting"
            /\ UNCHANGED panicked
    /\ stopCalls' = stopCalls + 1
    /\ UNCHANGED <<items, defaultExpiration, wg, sweeper, tickReady, now, last,
                   hist, mu, procs>>

\* Stop, up to wg.Wait: close(c.stop) panics on a closed channel
CallStop ==
    /\ ~panicked
    /\ IF stop = "closed"
       THEN /\ panicked' = TRUE
            /\ UNCHANGED <<stop, stopPc>>
       ELSE /\ stop' = "closed"
            /\ stopPc' = "waiting"
            /\ UNCHANGED panicked
    /\ stopCalls' = stopCalls + 1
    /\ UNCHANGED <<items, defaultExpiration, wg, sweeper, tickReady, now, last,
                   hist, mu, procs>>

\* a Stop that does not wait for the sweeper
StopReturnNoWait ==
    /\ ~panicked
    /\ stopPc = "waiting"
    /\ stopPc' = "returned"
    /\ last' = Ret("Stop", Nil, Nil, FALSE, Nil, 0)
    /\ UNCHANGED <<items, defaultExpiration, stop, wg, sweeper, tickReady,
                   panicked, now, hist, stopCalls, mu, procs>>

\* Stop, wg.Wait returns once the counter is zero
StopReturn ==
    /\ ~panicked
    /\ stopPc = "waiting"
    /\ wg = 0
    /\ stopPc' = "returned"
    /\ last' = Ret("Stop", Nil, Nil, FALSE, Nil, 0)
    /\ UNCHANGED <<items, defaultExpiration, stop, wg, sweeper, tickReady,
                   panicked, now, hist, stopCalls, mu, procs>>

\* the ticker of cleanUp delivers a tick on t.C (capacity one)
TickerFire ==
    /\ ~panicked
    /\ sweeper \notin {"none", "done"}
    /\ ~tickReady
    /\ tickReady' = TRUE
    /\ UNCHANGED <<items, defaultExpiration, stop, wg, sweeper, stopPc,
                   panicked, now, last, hist, stopCalls, mu, procs>>

\* a sweeper that takes the tick and does not scan
SweeperScanSkips ==
    /\ ~panicked
    /\ sweeper = "select"
    /\ tickReady
    /\ tickReady' = FALSE
    /\ UNCHANGED <<items, defaultExpiration, stop, wg, sweeper, stopPc, panicked,
                   now, last, hist, stopCalls, mu, procs>>

\* a sweeper that scans once more when it finds the stop channel closed
SweeperScanOnStop ==
    /\ ~panicked
    /\ sweeper = "select"
    /\ tickReady \/ stop = "closed"
    /\ tickReady' = FALSE
    /\ items' = cleanUpScan
    /\ UNCHANGED <<defaultExpiration, stop, wg, sweeper, stopPc, panicked, now,
                   last, hist, stopCalls, mu, procs>>

\* cleanUp, case <-t.C: one scan under the lock
SweeperScan ==
    /\ ~panicked
    /\ sweeper = "select"
    /\ tickReady
    /\ tickReady' = FALSE
    /\ items' = cleanUpScan
    /\ UNCHANGED <<defaultExpiration, stop, wg, sweeper, stopPc, panicked, now,
                   last, hist, stopCalls, mu, procs>>

\* a sweeper that returns without wg.Done()
SweeperExitNoDone ==
    /\ ~panicked
    /\ sweeper = "select"
    /\ stop = "closed"
    /\ sweeper' = "done"
    /\ tickReady' = FALSE
    /\ UNCHANGED <<items, defaultExpiration, stop, wg, stopPc, panicked, now,
                   last, hist, stopCalls, mu, procs>>

\* cleanUp, case <-c.stop: return, t.Stop() and wg.Done() run deferred
SweeperExit ==
    /\ ~panicked
    /\ sweeper = "select"
    /\ stop = "closed"
    /\ sweeper' = "done"
    /\ tickReady' = FALSE
    /\ wg' = wg - 1
    /\ UNCHANGED <<items, defaultExpiration, stop, stopPc, panicked, now, last,
                   hist, stopCalls, mu, procs>>

\* the wall clock moves on
ClockAdvance ==
    /\ ~panicked
    /\ now < MaxTime
    /\ now' = now + 1
    /\ UNCHANGED <<items, defaultExpiration, stop, wg, sweeper, tickReady,
                   stopPc, panicked, last, hist, stopCalls, mu, procs>>

Next ==
    \/ \E key \in Keys, object \in Objects, duration \in Durations :
           CallSet(key, object, duration)
    \/ \E key \in Keys, object \in Objects, duration \in Durations :
           CallAdd(key, object, duration)
    \/ \E key \in Keys, object \in Objects, duration \in Durations :
           CallReplace(key, object, duration)
    \/ \E key \in Keys : CallGet(key)
    \/ \E key \in Keys : CallDelete(key)
    \/ CallFlush
    \/ CallItemCount
    \/ CallStop
    \/ StopReturn
    \/ TickerFire
    \/ SweeperScan
    \/ SweeperExit
    \/ ClockAdvance

Spec == Init /\ [][Next]_vars

\* Spec with a ticker that keeps firing while it lives and a sweeper that
\* takes the tick it finds ready: while the stop channel is open the tick case
\* is the only one its select can take, and c.mu is handed to it in the end
FairSpec == Init /\ [][Next]_vars /\ WF_vars(TickerFire) /\ WF_vars(SweeperScan)

\* ------------------------------------------ durations near the end of int64
\* The cache of Spec with callers that pass durations up to the largest
\* time.Duration, which is the largest int64.
WideDurations == {DefaultExpiration, 1, MaxInt64 - 1, MaxInt64}

WideInit ==
    \E de \in {NoExpiration, MaxInt64}, ci \in CleanupIntervals :
        LET c == NewCache(de, ci)
        IN  /\ items = c.items
            /\ defaultExpiration = c.defaultExpiration
            /\ stop = c.stop
            /\ wg = c.wg
            /\ sweeper = c.sweeper
            /\ tickReady = FALSE
            /\ stopPc = "idle"
            /\ panicked = FALSE
            /\ now = 1
            /\ last = [op |-> "NewCache", key |-> Nil, object |-> Nil,
                       found |-> FALSE, err |-> Nil, n |-> 0]
            /\ hist = [k \in Keys |-> noWrite]
            /\ stopCalls = 0
            /\ mu = unlocked
            /\ procs = [g \in Goroutines |-> idle]

WideNext ==
    \/ \E key \in Keys, duration \in WideDurations :
           CallSet(key, "aValue", duration)
    \/ \E key \in Keys, duration \in WideDurations :
           CallAdd(key, "aValue", duration)
    \/ \E key \in Keys, duration \in WideDurations :
           CallReplace(key, "aValue", duration)
    \/ \E key \in Keys : CallGet(key)
    \/ \E key \in Keys : CallDelete(key)
    \/ CallItemCount
    \/ TickerFire
    \/ SweeperScan
    \/ ClockAdvance

WideSpec == WideInit /\ [][WideNext]_vars

\* ------------------------------------------- the handlers, lock step by step
\* The same cache with the calls of two goroutines and the scan of the sweeper
\* taken apart at c.mu: a call blocks in Lock or RLock, enters its critical
\* section, makes its map accesses one per step, and releases the lock by
\* defer with the last of them.  c.mu is a sync.RWMutex: a writer blocked in
\* Lock holds back the readers that come after it, and Unlock admits the
\* readers blocked at that moment before the next writer.
ConcKeys == {"aKey"}
ConcDurations == {NoExpiration, 1}

\* each goroutine writes an object of its own
objectOf(g) == IF g = "g1" THEN "aValue" ELSE "a2Value"

WriteOps == {"Set", "Add", "Replace", "Delete", "Flush"}
ReadOps == {"Get", "ItemCount"}

\* a Lock that does not wait for the readers to leave
canLockAmongReaders(m) == m.w = Nil

\* a Lock that does not wait for another writer to leave
canLockAmongWriters(m) == m.r = {}

\* c.mu.Lock() can return: no writer and no reader holds the lock
canLock(m) == m.w = Nil /\ m.r = {}

\* a writer is blocked in c.mu.Lock()
writerWaiting ==
    \/ sweeper = "lock"
    \/ \E g \in Goroutines : procs[g].pc = "lock" /\ procs[g].op \in WriteOps

\* the readers blocked in c.mu.RLock()
blockedReaders ==
    {g \in Goroutines : procs[g].pc = "lock" /\ procs[g].op \in ReadOps}

\* an RLock that does not wait for the writer to leave
canRLockAlways(m) == TRUE

\* c.mu.RLock() can return: no writer holds the lock or is blocked in Lock
canRLock(m) == m.w = Nil /\ ~writerWaiting

\* c.mu.Unlock() by the writer: the readers blocked in RLock are admitted
unlock(m) == [w |-> Nil, r |-> blockedReaders]

concUnchanged == UNCHANGED <<defaultExpiration, stop, wg, sweeper, tickReady,
                             stopPc, panicked, now, last, stopCalls>>

\* the call of g returns res; the deferred Unlock or RUnlock releases c.mu
return(g, res) ==
    /\ procs' = [procs EXCEPT ![g] = [idle EXCEPT !.res = res]]
    /\ mu' = IF mu.w = g THEN unlock(mu) ELSE [w |-> mu.w, r |-> mu.r \ {g}]

ConcInit ==
    \E ci \in CleanupIntervals :
        LET c == NewCache(NoExpiration, ci)
        IN  /\ items = c.items
            /\ defaultExpiration = c.defaultExpiration
            /\ stop = c.stop
            /\ wg = c.wg
            /\ sweeper = c.sweeper
            /\ tickReady = FALSE
            /\ stopPc = "idle"
            /\ panicked = FALSE
            /\ now = 1
            /\ last = [op |-> "NewCache", key |-> Nil, object |-> Nil,
                       found |-> FALSE, err |-> Nil, n |-> 0]
            /\ hist = [k \in Keys |-> noWrite]
            /\ stopCalls = 0
            /\ mu = unlocked
            /\ procs = [g \in Goroutines |-> idle]

\* goroutine g calls op and reaches the Lock or RLock on its first line
Call(g, op, key, duration) ==
    /\ ~panicked
    /\ procs[g].pc = "idle"
    /\ procs' = [procs EXCEPT ![g] =
                    [pc |-> "lock", op |-> op,
                     key |-> IF op \in {"Flush", "ItemCount"} THEN Nil ELSE key,
                     object |-> IF op \in {"Set", "Add", "Replace"}
                                THEN objectOf(g) ELSE Nil,
                     duration |-> IF op \in {"Set", "Add", "Replace"}
                                  THEN duration ELSE 0,
                     seen |-> noWrite,
                     res |-> idle.res]]
    /\ UNCHANGED <<items, hist, mu>>
    /\ concUnchanged

\* c.mu.Lock() returns in g
Lock(g) ==
    /\ ~panicked
    /\ procs[g].pc = "lock"
    /\ procs[g].op \in WriteOps
    /\ canLock(mu)
    /\ mu' = [mu EXCEPT !.w = g]
    /\ procs' = [procs EXCEPT ![g].pc = "held"]
    /\ UNCHANGED <<items, hist>>
    /\ concUnchanged

\* c.mu.RLock() returns in g
RLock(g) ==
    /\ ~panicked
    /\ procs[g].pc = "lock"
    /\ procs[g].op \in ReadOps
    /\ g \in mu.r \/ canRLock(mu)
    /\ mu' = [mu EXCEPT !.r = mu.r \cup {g}]
    /\ procs' = [procs EXCEPT ![g].pc = "held",
                              ![g].seen = IF procs[g].op = "Get"
                                          THEN hist[procs[g].key] ELSE noWrite]
    /\ UNCHANGED <<items, hist>>
    /\ concUnchanged

\* Set: c.set and return
SetBody(g) ==
    LET p == procs[g]
    IN  /\ ~panicked
        /\ p.pc = "held"
        /\ p.op = "Set"
        /\ items' = Set(p.key, p.object, p.duration)
        /\ hist' = [hist EXCEPT ![p.key] = written(p.object, p.duration)]
        /\ return(g, Ret("Set", p.key, Nil, FALSE, Nil, 0))
        /\ concUnchanged

\* an Add that returns its error without the Unlock
AddCheckLeaksLock(g) ==
    LET p == procs[g]
        item == lookup(items, p.key)
        isExpired == item.expiration > 0 /\ item.expiration <= now
    IN  /\ ~panicked
        /\ p.pc = "held"
        /\ p.op = "Add"
        /\ IF found(items, p.key) /\ ~isExpired
           THEN procs' = [procs EXCEPT ![g] =
                    [idle EXCEPT !.res = Ret("Add", p.key, Nil, FALSE,
                                             ErrItemAlreadyExists, 0)]]
           ELSE procs' = [procs EXCEPT ![g].pc = "checked"]
        /\ UNCHANGED <<items, hist, mu>>
        /\ concUnchanged

\* Add: the lookup and the test of the deadline; return of the error
AddCheck(g) ==
    LET p == procs[g]
        item == lookup(items, p.key)
        isExpired == item.expiration > 0 /\ item.expiration <= now
    IN  /\ ~panicked
        /\ p.pc = "held"
        /\ p.op = "Add"
        /\ IF found(items, p.key) /\ ~isExpired
           THEN return(g, Ret("Add", p.key, Nil, FALSE, ErrItemAlreadyExists, 0))
           ELSE /\ procs' = [procs EXCEPT ![g].pc = "checked"]
                /\ UNCHANGED mu
        /\ UNCHANGED <<items, hist>>
        /\ concUnchanged

\* Add: c.set and return of nil
AddSet(g) ==
    LET p == procs[g]
    IN  /\ ~panicked
        /\ p.pc = "checked"
        /\ p.op = "Add"
        /\ items' = set(p.key, p.object, p.duration)
        /\ hist' = [hist EXCEPT ![p.key] = written(p.object, p.duration)]
        /\ return(g, Ret("Add", p.key, Nil, FALSE, Nil, 0))
        /\ concUnchanged

\* Replace: the lookup and the test of the deadline; return of the error
ReplaceCheck(g) ==
    LET p == procs[g]
        item == lookup(items, p.key)
        isExpired == item.expiration > 0 /\ item.expiration <= now
    IN  /\ ~panicked
        /\ p.pc = "held"
        /\ p.op = "Replace"
        /\ IF ~found(items, p.key) \/ isExpired
           THEN return(g, Ret("Replace", p.key, Nil, FALSE, ErrItemNotFound, 0))
           ELSE /\ procs' = [procs EXCEPT ![g].pc = "checked"]
                /\ UNCHANGED mu
        /\ UNCHANGED <<items, hist>>
        /\ concUnchanged

\* Replace: c.set and return of nil
ReplaceSet(g) ==
    LET p == procs[g]
    IN  /\ ~panicked
        /\ p.pc = "checked"
        /\ p.op = "Replace"
        /\ items' = set(p.key, p.object, p.duration)
        /\ hist' = [hist EXCEPT ![p.key] = written(p.object, p.duration)]
        /\ return(g, Ret("Replace", p.key, Nil, FALSE, Nil, 0))
        /\ concUnchanged

\* Get: the lookup, the test of the deadline and return
GetBody(g) ==
    LET p == procs[g]
        r == Get(p.key)
    IN  /\ ~panicked
        /\ p.pc = "held"
        /\ p.op = "Get"
        /\ items' = r.items
        /\ return(g, Ret("Get", p.key, r.object, r.found, Nil, 0))
        /\ UNCHANGED hist
        /\ concUnchanged

\* Delete: delete(c.items, key) and return
DeleteBody(g) ==
    LET p == procs[g]
    IN  /\ ~panicked
        /\ p.pc = "held"
        /\ p.op = "Delete"
        /\ items' = Delete(p.key)
        /\ hist' = [hist EXCEPT ![p.key] = noWrite]
        /\ return(g, Ret("Delete", p.key, Nil, FALSE, Nil, 0))
        /\ concUnchanged

\* Flush: the fresh map and return
FlushBody(g) ==
    /\ ~panicked
    /\ procs[g].pc = "held"
    /\ procs[g].op = "Flush"
    /\ items' = Flush
    /\ hist' = [k \in Keys |-> noWrite]
    /\ return(g, Ret("Flush", Nil, Nil, FALSE, Nil, 0))
    /\ concUnchanged

\* ItemCount: len(c.items) and return
ItemCountBody(g) ==
    /\ ~panicked
    /\ procs[g].pc = "held"
    /\ procs[g].op = "ItemCount"
    /\ return(g, Ret("ItemCount", Nil, Nil, FALSE, Nil, ItemCount))
    /\ UNCHANGED <<items, hist>>
    /\ concUnchanged

\* cleanUp, case <-t.C taken: the sweeper reaches c.mu.Lock()
SweeperTick ==
    /\ ~panicked
    /\ sweeper = "select"
    /\ tickReady
    /\ tickReady' = FALSE
    /\ sweeper' = "lock"
    /\ UNCHANGED <<items, defaultExpiration, stop, wg, stopPc, panicked, now,
                   last, hist, stopCalls, mu, procs>>

\* cleanUp: c.mu.Lock() returns
SweeperLock ==
    /\ ~panicked
    /\ sweeper = "lock"
    /\ canLock(mu)
    /\ mu' = [mu EXCEPT !.w = "sweeper"]
    /\ sweeper' = "scan"
    /\ UNCHANGED <<items, defaultExpiration, stop, wg, tickReady, stopPc,
                   panicked, now, last, hist, stopCalls, procs>>

\* a sweeper that goes back to its select with the lock held
SweeperSweepKeepsLock ==
    /\ ~panicked
    /\ sweeper = "scan"
    /\ items' = cleanUpScan
    /\ sweeper' = "select"
    /\ UNCHANGED <<defaultExpiration, stop, wg, tickReady, stopPc, panicked,
                   now, last, hist, stopCalls, procs, mu>>

\* cleanUp: the loop over c.items, c.mu.Unlock(), and back to the select
SweeperSweep ==
    /\ ~panicked
    /\ sweeper = "scan"
    /\ items' = cleanUpScan
    /\ mu' = IF mu.w = "sweeper" THEN unlock(mu) ELSE mu
    /\ sweeper' = "select"
    /\ UNCHANGED <<defaultExpiration, stop, wg, tickReady, stopPc, panicked,
                   now, last, hist, stopCalls, procs>>

ConcNext ==
    \/ \E g \in Goroutines, op \in WriteOps \cup ReadOps, key \in ConcKeys,
          duration \in ConcDurations : Call(g, op, key, duration)
    \/ \E g \in Goroutines : Lock(g)
    \/ \E g \in Goroutines : RLock(g)
    \/ \E g \in Goroutines : SetBody(g)
    \/ \E g \in Goroutines : AddCheck(g)
    \/ \E g \in Goroutines : AddSet(g)
    \/ \E g \in Goroutines : ReplaceCheck(g)
    \/ \E g \in Goroutines : ReplaceSet(g)
    \/ \E g \in Goroutines : GetBody(g)
    \/ \E g \in Goroutines : DeleteBody(g)
    \/ \E g \in Goroutines : FlushBody(g)
    \/ \E g \in Goroutines : ItemCountBody(g)
    \/ TickerFire
    \/ SweeperTick
    \/ SweeperLock
    \/ SweeperSweep
    \/ CallStop
    \/ StopReturn
    \/ SweeperExit
    \/ ClockAdvance

ConcSpec == ConcInit /\ [][ConcNext]_vars

\* What the Go runtime gives the goroutines.  A goroutine that can run does run
\* (weak fairness of the steps inside a critical section, of the tick case
\* and of the return of wg.Wait).  A goroutine blocked in Lock or RLock gets
\* the lock in the end: sync.Mutex hands the lock to a waiter that has starved
\* and a blocked writer holds back new readers (strong fairness of Lock and
\* RLock).  The select chooses among its ready cases uniformly at random, so
\* it takes the stop case in the end once the channel is closed (strong
\* fairness of the exit).  The ticker keeps firing while it lives.
ConcFairness ==
    /\ \A g \in Goroutines :
          /\ SF_vars(Lock(g))
          /\ SF_vars(RLock(g))
          /\ WF_vars(SetBody(g))
          /\ WF_vars(AddCheck(g))
          /\ WF_vars(AddSet(g))
          /\ WF_vars(ReplaceCheck(g))
          /\ WF_vars(ReplaceSet(g))
          /\ WF_vars(GetBody(g))
          /\ WF_vars(DeleteBody(g))
          /\ WF_vars(FlushBody(g))
          /\ WF_vars(ItemCountBody(g))
    /\ WF_vars(TickerFire)
    /\ WF_vars(SweeperTick)
    /\ SF_vars(SweeperLock)
    /\ WF_vars(SweeperSweep)
    /\ SF_vars(SweeperExit)
    /\ WF_vars(StopReturn)

\* the steps of ConcSpec with the clock at rest and no deadlines: progress at
\* the lock and at the stop channel does not depend on them
LiveNext ==
    \/ \E g \in Goroutines, op \in WriteOps \cup ReadOps, key \in ConcKeys :
           Call(g, op, key, NoExpiration)
    \/ \E g \in Goroutines : Lock(g)
    \/ \E g \in Goroutines : RLock(g)
    \/ \E g \in Goroutines : SetBody(g)
    \/ \E g \in Goroutines : AddCheck(g)
    \/ \E g \in Goroutines : AddSet(g)
    \/ \E g \in Goroutines : ReplaceCheck(g)
    \/ \E g \in Goroutines : ReplaceSet(g)
    \/ \E g \in Goroutines : GetBody(g)
    \/ \E g \in Goroutines : DeleteBody(g)
    \/ \E g \in Goroutines : FlushBody(g)
    \/ \E g \in Goroutines : ItemCountBody(g)
    \/ TickerFire
    \/ SweeperTick
    \/ SweeperLock
    \/ SweeperSweep
    \/ CallStop
    \/ StopReturn
    \/ SweeperExit

LiveSpec == ConcInit /\ [][LiveNext]_vars /\ ConcFairness

\* -------------------------------------------------------------- properties
\* the deadline a write asked for has been reached
pastDeadline(h) == h.ttl /\ h.deadline <= now

\* the entry a write asked for
asked(h) == [object |-> h.object, expiration |-> IF h.ttl THEN h.deadline ELSE 0]

\* key is stored and the deadline of its last write has not been reached
live(key) == key \in DOMAIN items /\ ~pastDeadline(hist[key])

\* the entries of m other than the one under key are those of items
othersKept(m, key) ==
    \A j \in Keys \ {key} : found(m, j) = found(items, j) /\ lookup(m, j) = lookup(items, j)

\* C1: a key written by Set (or by a successful Add or Replace) and not written,
\* deleted or flushed since is returned by Get with the written object and
\* found = true as long as the deadline of that write has not been reached,
\* whatever the key held before and whatever the duration was.
C1_SetGetRoundTrip ==
    \A k \in Keys :
        (hist[k] # noWrite /\ ~pastDeadline(hist[k]))
            => (Get(k).found /\ Get(k).object = hist[k].object)

\* a Get has just returned the object last written with a positive duration
\* whose deadline lies ahead, the other key having been written as well
C1_Witness ==
    /\ last.op = "Get"
    /\ last.found
    /\ hist[last.key].ttl
    /\ hist[last.key].deadline > now
    /\ last.object = hist[last.key].object
    /\ \A k \in Keys : hist[k] # noWrite

\* C2: once the clock has reached the deadline of the last write of a key, Get
\* on that key returns (nil, false), with or without a sweeper, stopped or not,
\* and whether or not a scan has removed the entry.
C2_Expiration ==
    \A k \in Keys :
        (hist[k] # noWrite /\ pastDeadline(hist[k]))
            => (~Get(k).found /\ Get(k).object = Nil)

\* a Get has just reported not-found for an expired entry that is still stored
C2_Witness ==
    /\ last.op = "Get"
    /\ ~last.found
    /\ last.object = Nil
    /\ last.key \in DOMAIN items
    /\ pastDeadline(hist[last.key])

\* C3: an entry written without a deadline (NoExpiration, another non-positive
\* duration, or DefaultExpiration on a cache whose default is no expiration)
\* stays stored with its object and is returned by Get at every later clock
\* value and after any number of scans, until Delete, Flush or another write.
C3_NoExpirationDurability ==
    \A k \in Keys :
        (hist[k] # noWrite /\ ~hist[k].ttl)
            => /\ k \in DOMAIN items
               /\ items[k] = asked(hist[k])
               /\ Get(k).found
               /\ Get(k).object = hist[k].object

\* at the last clock value a Get has just returned an entry without a deadline,
\* while the sweeper has removed the other key, which had expired
C3_Witness ==
    /\ now = MaxTime
    /\ last.op = "Get"
    /\ last.found
    /\ ~hist[last.key].ttl
    /\ \E k \in Keys : pastDeadline(hist[k]) /\ k \notin DOMAIN items

\* C4: in every reachable state and for every object and duration, Add returns
\* nil exactly when the key is not stored or its entry is expired; it then
\* stores the new object with the deadline its own duration and the clock ask
\* for, touching no other key, and after a successful Add Get returns the added
\* object until that deadline.
C4_AddSucceeds ==
    /\ \A k \in Keys, o \in Objects, d \in Durations :
         LET r == Add(k, o, d)
         IN  /\ (r.err = Nil) <=> ~live(k)
             /\ (r.err = Nil) =>
                  /\ found(r.items, k)
                  /\ r.items[k] = asked(written(o, d))
                  /\ othersKept(r.items, k)
    /\ (last.op = "Add" /\ last.err = Nil /\ ~pastDeadline(hist[last.key]))
         => /\ Get(last.key).found
            /\ Get(last.key).object = hist[last.key].object

\* an Add has just succeeded after the clock moved, the entry has a deadline
\* ahead and Get returns the added object
C4_Witness ==
    /\ last.op = "Add"
    /\ last.err = Nil
    /\ now > 1
    /\ last.key \in DOMAIN items
    /\ hist[last.key].ttl
    /\ hist[last.key].deadline > now
    /\ Get(last.key).found
    /\ Get(last.key).object = hist[last.key].object

\* C5: when a live entry is stored under the key, Add returns
\* ErrItemAlreadyExists and leaves the whole map as it was; after a failed Add
\* the entry still has the object and the deadline of its last write, and Get
\* returns that object.
C5_AddFailureNoChange ==
    /\ \A k \in Keys, o \in Objects, d \in Durations :
         LET r == Add(k, o, d)
         IN  /\ live(k) => r.err = ErrItemAlreadyExists
             /\ (r.err = ErrItemAlreadyExists) => (r.items = items /\ Get(k).found)
    /\ (last.op = "Add" /\ last.err = ErrItemAlreadyExists /\ ~pastDeadline(hist[last.key]))
         => /\ found(items, last.key)
            /\ items[last.key] = asked(hist[last.key])
            /\ Get(last.key).found
            /\ Get(last.key).object = hist[last.key].object

\* an Add has just failed on an entry that has a deadline ahead, which it keeps
C5_Witness ==
    /\ last.op = "Add"
    /\ last.err = ErrItemAlreadyExists
    /\ hist[last.key].ttl
    /\ ~pastDeadline(hist[last.key])
    /\ items[last.key] = asked(hist[last.key])

\* C6: in every reachable state and for every object and duration, Replace
\* returns nil exactly when a live entry is stored under the key; the entry
\* then holds the new object and the deadline the duration and clock of the
\* Replace ask for, nothing of the old deadline being kept, and no other key is
\* touched.
C6_ReplaceSucceeds ==
    /\ \A k \in Keys, o \in Objects, d \in Durations :
         LET r == Replace(k, o, d)
         IN  /\ (r.err = Nil) <=> live(k)
             /\ (r.err = Nil) =>
                  /\ found(r.items, k)
                  /\ r.items[k] = asked(written(o, d))
                  /\ othersKept(r.items, k)
    /\ (last.op = "Replace" /\ last.err = Nil /\ ~pastDeadline(hist[last.key]))
         => /\ Get(last.key).found
            /\ Get(last.key).object = hist[last.key].object

\* a Replace has just succeeded after the clock moved and left an entry that
\* never expires
C6_Witness ==
    /\ last.op = "Replace"
    /\ last.err = Nil
    /\ now > 1
    /\ ~hist[last.key].ttl
    /\ items[last.key].expiration = 0
    /\ Get(last.key).found

\* C7: when the key is not stored or its entry is expired, Replace returns
\* ErrItemNotFound and leaves the map as it was, so ItemCount is unchanged and
\* Get keeps reporting not-found; on a cache without a sweeper the expired
\* entry is still stored, with its object and deadline, after the failed call.
C7_ReplaceFailureNoChange ==
    /\ \A k \in Keys, o \in Objects, d \in Durations :
         LET r == Replace(k, o, d)
         IN  /\ ~live(k) => r.err = ErrItemNotFound
             /\ (r.err = ErrItemNotFound) => (r.items = items /\ ~Get(k).found)
    /\ (last.op = "Replace" /\ last.err = ErrItemNotFound /\ sweeper = "none"
          /\ hist[last.key] # noWrite)
         => /\ found(items, last.key)
            /\ items[last.key] = asked(hist[last.key])
            /\ ~Get(last.key).found

\* a Replace has just failed on an expired entry, which is still stored
C7_Witness ==
    /\ last.op = "Replace"
    /\ last.err = ErrItemNotFound
    /\ last.key \in DOMAIN items
    /\ pastDeadline(hist[last.key])
    /\ items[last.key] = asked(hist[last.key])

C9_GetDeletesExpired ==
    (last.op = "Get" /\ ~last.found) => last.key \notin DOMAIN items

\* C10: ItemCount is the number of stored entries, expired ones included: it
\* never falls below the number of keys whose last write is not past its
\* deadline, without a sweeper it is the number of keys written and not
\* deleted or flushed since, whatever their deadlines, and that is the number
\* an ItemCount call has just returned.
C10_ItemCountIncludesExpired ==
    /\ ItemCount = Cardinality({k \in Keys : found(items, k)})
    /\ ItemCount >= Cardinality({k \in Keys : hist[k] # noWrite /\ ~pastDeadline(hist[k])})
    /\ (sweeper = "none") => ItemCount = Cardinality({k \in Keys : hist[k] # noWrite})
    /\ (last.op = "ItemCount" /\ sweeper = "none")
         => last.n = Cardinality({k \in Keys : hist[k] # noWrite})

\* an ItemCount has just returned 2 while both entries are past their deadlines
C10_Witness ==
    /\ last.op = "ItemCount"
    /\ last.n = 2
    /\ \A k \in Keys : pastDeadline(hist[k])

\* C11: Delete(k) leaves k not stored, whether the entry was live or expired,
\* and leaves every other entry as it was; the count drops by one when k was
\* stored and the map is unchanged when it was not; a Get of k that follows
\* reports not-found.
C11_DeleteRemoves ==
    /\ \A k \in Keys :
           LET m == Delete(k)
           IN  /\ ~found(m, k)
               /\ othersKept(m, k)
               /\ Cardinality(DOMAIN m)
                      = ItemCount - (IF found(items, k) THEN 1 ELSE 0)
               /\ ~found(items, k) => m = items
    /\ last.op = "Delete" => (~found(items, last.key) /\ ~Get(last.key).found)

\* a Delete has just removed an expired entry and left the other key stored
C11_Witness ==
    /\ last.op = "Delete"
    /\ ~found(items, last.key)
    /\ ItemCount = 1
    /\ \E k \in Keys : found(items, k) /\ pastDeadline(hist[k])

\* C12: Flush leaves no entry, whatever was stored: the count is zero and Get
\* reports not-found for every key; on an empty cache it changes nothing; the
\* step that flushes changes neither the default duration nor the sweeper, its
\* ticker, the stop channel or the clock.
C12_FlushRemovesAll ==
    /\ [](/\ Cardinality(DOMAIN Flush) = 0
          /\ items = emptyMap => Flush = items
          /\ last.op = "Flush"
                => (ItemCount = 0 /\ \A k \in Keys : ~Get(k).found))
    /\ [][(last.op # "Flush" /\ last'.op = "Flush")
            => /\ items' = emptyMap
               /\ UNCHANGED <<defaultExpiration, stop, wg, sweeper, tickReady,
                              stopPc, panicked, now>>]_vars

\* a Flush has just emptied a cache whose sweeper is running with a tick ready
C12_Witness ==
    /\ last.op = "Flush"
    /\ ItemCount = 0
    /\ sweeper = "select"
    /\ tickReady
    /\ defaultExpiration > 0

\* C13: whatever default duration and cleanup interval the cache was built
\* with, before the first call completes it holds no entry: ItemCount is zero
\* and Get returns (nil, false) for every key.
C13_EmptyAtStartup ==
    /\ \A de \in Durations, ci \in CleanupIntervals :
           NewCache(de, ci).items = emptyMap
    /\ last.op = "NewCache"
          => /\ ItemCount = 0
             /\ \A k \in Keys : ~Get(k).found /\ Get(k).object = Nil

\* a cache built with a sweeper and a default deadline, before any call
C13_Witness ==
    /\ last.op = "NewCache"
    /\ sweeper = "select"
    /\ defaultExpiration > 0
    /\ stop = "open"

\* a step in which the sweeper removes entries: the count drops and no call
\* has completed
evicts == ItemCount' < ItemCount /\ last' = last

\* C14: Stop returns only when the sweeper, if there is one, has terminated:
\* the WaitGroup counter is zero and the ticker is stopped.  From then on the
\* sweeper stays terminated, the count of stored entries drops only in a step
\* that completes a Delete or a Flush, and the map changes only in a step that
\* completes a Set, Add, Replace, Delete or Flush.
C14_NoEvictionAfterStop ==
    /\ [](stopPc = "returned"
            => /\ sweeper \in {"none", "done"}
               /\ wg = 0
               /\ ~tickReady
               /\ stop = "closed")
    /\ [][stopPc = "returned"
            => /\ stopPc' = "returned"
               /\ sweeper' = sweeper
               /\ ~evicts
               /\ ItemCount' < ItemCount => last'.op \in {"Delete", "Flush"}
               /\ items' # items
                     => last'.op \in {"Set", "Add", "Replace", "Delete", "Flush"}]_vars

\* Stop has returned, the sweeper has terminated, and an ItemCount has just
\* counted two entries of which one is past its deadline
C14_Witness ==
    /\ stopPc = "returned"
    /\ sweeper = "done"
    /\ last.op = "ItemCount"
    /\ last.n = 2
    /\ \E k \in Keys : found(items, k) /\ pastDeadline(hist[k])

\* C15: the first Stop call closes the channel; every Stop call made when the
\* channel is closed already, while the first one waits or after it returned,
\* with or without a sweeper, panics instead of returning.
C15_StopNotIdempotent ==
    /\ stopCalls = 0 <=> stop = "open"
    /\ stopCalls >= 2 <=> panicked
    /\ stopCalls <= 2
    /\ (stop = "closed" /\ ~panicked) => ENABLED (CallStop /\ panicked')

\* a second Stop call has panicked while the first waits for the sweeper
C15_Witness ==
    /\ panicked
    /\ stopCalls = 2
    /\ stopPc = "waiting"
    /\ sweeper = "select"

\* the deadline the specification gives a write of duration d made now
expiresAt(d) ==
    IF d = DefaultExpiration
    THEN IF defaultExpiration = NoExpiration THEN 0 ELSE now + defaultExpiration
    ELSE IF d = NoExpiration THEN 0
    ELSE IF d > 0 THEN now + d
    ELSE 0

\* C16: the constructor turns a default of zero or less into NoExpiration and
\* keeps a positive one; Set, a successful Add and a successful Replace store
\* the same deadline for the same duration: none (0) for NoExpiration and for
\* any other negative duration, now + d for a positive d, and for
\* DefaultExpiration what the default of the cache gives.
C16_DurationResolution ==
    /\ \A de \in Durations, ci \in CleanupIntervals :
           LET c == NewCache(de, ci)
           IN  /\ de <= 0 => c.defaultExpiration = NoExpiration
               /\ de > 0 => c.defaultExpiration = de
    /\ defaultExpiration = NoExpiration \/ defaultExpiration > 0
    /\ \A k \in Keys, o \in Objects, d \in Durations :
           LET a == Add(k, o, d)
               r == Replace(k, o, d)
           IN  /\ Set(k, o, d)[k].expiration = expiresAt(d)
               /\ a.err = Nil => a.items[k].expiration = expiresAt(d)
               /\ r.err = Nil => r.items[k].expiration = expiresAt(d)

\* a Replace has just stored the deadline the positive default of the cache
\* gives, after the clock has moved
C16_Witness ==
    /\ last.op = "Replace"
    /\ last.err = Nil
    /\ defaultExpiration > 0
    /\ now > 1
    /\ lookup(items, last.key).expiration = now + defaultExpiration

\* a step in which the sweeper takes the tick case of its select
scans == sweeper = "select" /\ tickReady /\ ~tickReady' /\ sweeper' = "select"

\* C20, as stated: once the stop channel is closed the sweeper takes the tick
\* case no more, a tick being ready or not.
C20_NoScanAfterSignal == [][stop = "closed" => ~scans]_vars

\* C20, amended: once the stop channel is closed the sweeper can terminate at
\* once; it removes entries only in a step that takes a tick that was ready,
\* never on account of the signal; and once terminated it stays terminated
\* and removes nothing.
C20_ScanOnlyOnReadyTick ==
    /\ []((stop = "closed" /\ sweeper = "select" /\ ~panicked)
            => ENABLED SweeperExit)
    /\ [](sweeper = "done" => (stop = "closed" /\ ~tickReady))
    /\ [][(stop = "closed" /\ evicts) => scans]_vars
    /\ [][sweeper = "done" => (sweeper' = "done" /\ ~evicts)]_vars

\* the stop channel is closed while a tick is ready and an entry past its
\* deadline is stored: the sweeper is about to choose between the two cases
C20_Witness ==
    /\ stop = "closed"
    /\ sweeper = "select"
    /\ tickReady
    /\ ~panicked
    /\ \E k \in Keys : found(items, k) /\ pastDeadline(hist[k])

\* g is between the return of its Lock or RLock and its deferred unlock
inCritical(g) == procs[g].pc \in {"held", "checked"}

\* C17: while a Get holds the read lock no write to its key completes, and
\* what it is about to return is the object of the last write to the key that
\* completed before it took the lock: that object with found = true when that
\* write has not expired, and nothing at all when the key was never written or
\* was deleted or flushed since; never the object of an earlier write.
C17_GetSeesLastWrite ==
    \A g \in Goroutines :
        (procs[g].pc = "held" /\ procs[g].op = "Get")
            => LET p == procs[g]
                   r == Get(p.key)
               IN  /\ hist[p.key] = p.seen
                   /\ (p.seen # noWrite /\ ~pastDeadline(p.seen))
                         => (r.found /\ r.object = p.seen.object)
                   /\ r.found => (p.seen # noWrite /\ r.object = p.seen.object)
                   /\ p.seen = noWrite => ~r.found

\* g1 holds the read lock in a Get and is about to return the object g2 wrote
\* with a deadline, while g2 is blocked in the Lock of its next write
C17_Witness ==
    /\ procs["g1"].pc = "held"
    /\ procs["g1"].op = "Get"
    /\ procs["g1"].seen.object = objectOf("g2")
    /\ procs["g1"].seen.ttl
    /\ ~pastDeadline(procs["g1"].seen)
    /\ procs["g2"].pc = "lock"
    /\ procs["g2"].op \in WriteOps

\* the goroutines in a critical section of a writing call, and the sweeper in
\* its scan
writers ==
    {g \in Goroutines : inCritical(g) /\ procs[g].op \in WriteOps}
        \cup (IF sweeper = "scan" THEN {"sweeper"} ELSE {})

\* the goroutines in a critical section of a reading call
readers == {g \in Goroutines : inCritical(g) /\ procs[g].op \in ReadOps}

\* C18: at most one writer (Set, Add, Replace, Delete, Flush or the scan of the
\* sweeper) is in its critical section, and then no reader (Get, ItemCount)
\* is; everyone in a critical section holds c.mu in the mode of its call, and
\* nobody else does but a reader that the Unlock of a writer has admitted and
\* whose RLock has yet to return.
C18_LockDiscipline ==
    /\ Cardinality(writers) <= 1
    /\ writers # {} => (readers = {} /\ mu.r = {})
    /\ readers \subseteq mu.r
    /\ mu.r \ readers \subseteq blockedReaders
    /\ mu.w = Nil <=> writers = {}
    /\ mu.w # Nil => writers = {mu.w}
    /\ \A g \in Goroutines :
          procs[g].pc = "checked" => procs[g].op \in {"Add", "Replace"}

\* a Get and an ItemCount hold the read lock together while the sweeper is
\* blocked in Lock
C18_Witness ==
    /\ readers = Goroutines
    /\ procs["g1"].op = "Get"
    /\ procs["g2"].op = "ItemCount"
    /\ sweeper = "lock"
    /\ mu.w = Nil

\* key holds an entry that is not past the deadline stored with it
unexpired(key) ==
    /\ found(items, key)
    /\ ~(items[key].expiration > 0 /\ items[key].expiration <= now)

\* the step in which the call of g returns
returns(g) == inCritical(g) /\ procs'[g].pc = "idle"

\* C19: what Add and Replace found in their lookup still holds when they act
\* on it.  An Add returns ErrItemAlreadyExists and leaves the map alone when
\* the key holds an unexpired entry at its return, and otherwise returns nil
\* and stores its own object, so of two Adds racing for a free key the one
\* that acts second fails.  A Replace returns ErrItemNotFound and leaves the
\* map alone when the key is not stored at its return, and stores its object
\* only on nil: it never brings back a key a Delete has removed.
C19_CheckAndActAtomic ==
    /\ [](\A g \in Goroutines :
             procs[g].pc = "checked"
                => /\ procs[g].op = "Add" => ~unexpired(procs[g].key)
                   /\ procs[g].op = "Replace" => found(items, procs[g].key))
    /\ [][\A g \in Goroutines :
             (returns(g) /\ procs[g].op = "Add")
                => IF unexpired(procs[g].key)
                   THEN /\ procs'[g].res.err = ErrItemAlreadyExists
                        /\ items' = items
                   ELSE /\ procs'[g].res.err = Nil
                        /\ items'[procs[g].key].object = objectOf(g)]_vars
    /\ [][\A g \in Goroutines :
             (returns(g) /\ procs[g].op = "Replace")
                => IF ~found(items, procs[g].key)
                   THEN /\ procs'[g].res.err = ErrItemNotFound
                        /\ items' = items
                   ELSE \/ /\ procs'[g].res.err = Nil
                           /\ items'[procs[g].key].object = objectOf(g)
                        \/ /\ procs'[g].res.err = ErrItemNotFound
                           /\ items' = items]_vars

\* both goroutines have returned from an Add of the same key: g2 with nil, g1
\* with ErrItemAlreadyExists, and the key holds the object of g2
C19_Witness ==
    /\ procs["g1"].pc = "idle"
    /\ procs["g2"].pc = "idle"
    /\ procs["g1"].res.op = "Add"
    /\ procs["g2"].res.op = "Add"
    /\ procs["g1"].res.key = procs["g2"].res.key
    /\ procs["g1"].res.err = ErrItemAlreadyExists
    /\ procs["g2"].res.err = Nil
    /\ lookup(items, procs["g2"].res.key).object = objectOf("g2")

\* it holds a deadline and the clock reading t has reached it
expiredAt(it, t) == it.expiration > 0 /\ it.expiration <= t

\* C22: one scan removes the entries whose deadline is set and has been
\* reached, and nothing else.  For a scan that starts now and reads the clock
\* at[k] >= now when it comes to key k: no entry whose deadline had been
\* reached when the scan started is left, every entry without a deadline or
\* with a deadline beyond the reading is left with its object and deadline,
\* and nothing is added; for the scan at one instant the map left is exactly
\* the unexpired part of the map found.
C22_SweepExact ==
    /\ \A at \in [Keys -> now .. MaxTime] :
          LET m == cleanUpScanAt(at)
          IN  /\ DOMAIN m \subseteq DOMAIN items
              /\ \A k \in DOMAIN items :
                    /\ expiredAt(items[k], now) => ~found(m, k)
                    /\ ~expiredAt(items[k], at[k]) => (found(m, k) /\ m[k] = items[k])
    /\ cleanUpScan = cleanUpScanAt([k \in Keys |-> now])
    /\ \A k \in Keys :
          found(cleanUpScan, k) <=> (found(items, k) /\ ~expiredAt(items[k], now))
    /\ \A k \in DOMAIN cleanUpScan : cleanUpScan[k] = items[k]

\* a scan has removed the entry of a key that was written with a deadline and
\* neither deleted nor flushed, and has left the unexpired entry of the other
C22_Witness ==
    /\ sweeper = "select"
    /\ ~tickReady
    /\ \E k, j \in Keys :
          /\ hist[k] # noWrite
          /\ pastDeadline(hist[k])
          /\ ~found(items, k)
          /\ found(items, j)
          /\ items[j].expiration > now

\* C23: the sweeper holds c.mu for writing exactly while it is in its scan: not
\* while it waits in the select, not while it is blocked in Lock, not once it
\* has terminated, and not on a cache that has none.
C23_SweeperHoldsLockOnlyInScan ==
    /\ sweeper = "scan" <=> mu.w = "sweeper"
    /\ sweeper \in {"none", "select", "lock", "done"} => mu.w # "sweeper"
    /\ "sweeper" \notin mu.r

\* the sweeper is back in its select after a scan that removed the entry of
\* the key, and a goroutine holds the lock it released
C23_Witness ==
    /\ sweeper = "select"
    /\ mu.w \in Goroutines
    /\ \E k \in ConcKeys :
          hist[k] # noWrite /\ pastDeadline(hist[k]) /\ ~found(items, k)

\* C26: for every key and at every clock value Get reports found exactly when
\* a Replace of the key would return nil and exactly when an Add of the key
\* would return ErrItemAlreadyExists, whatever object and duration they carry:
\* exactly when the key is stored and its deadline, if set, lies ahead.
C26_LivenessViewsAgree ==
    \A k \in Keys, o \in Objects, d \in Durations :
        /\ Get(k).found <=> Replace(k, o, d).err = Nil
        /\ Get(k).found <=> Add(k, o, d).err = ErrItemAlreadyExists
        /\ Get(k).found <=> (found(items, k) /\ ~expiredAt(items[k], now))
        /\ Replace(k, o, d).err \in {Nil, ErrItemNotFound}
        /\ Add(k, o, d).err \in {Nil, ErrItemAlreadyExists}

\* one key holds an unexpired entry and the other an expired one that is still
\* stored, the clock at its last value
C26_Witness ==
    /\ now = MaxTime
    /\ \E k, j \in Keys :
          /\ Get(k).found
          /\ found(items, j)
          /\ ~Get(j).found

\* C28: Set stores one entry per key: the count after it is the count before
\* when the key was stored, live or expired, and one more when it was not; the
\* same holds for an Add that returns nil; a Replace that returns nil and a
\* failed Add or Replace leave the count as it was.  Only keys written since
\* they were last deleted or flushed are stored.
C28_OneEntryPerKey ==
    /\ \A k \in Keys, o \in Objects, d \in Durations :
          LET a == Add(k, o, d)
              r == Replace(k, o, d)
              more == IF found(items, k) THEN 0 ELSE 1
          IN  /\ Cardinality(DOMAIN Set(k, o, d)) = ItemCount + more
              /\ a.err = Nil => Cardinality(DOMAIN a.items) = ItemCount + more
              /\ a.err # Nil => Cardinality(DOMAIN a.items) = ItemCount
              /\ Cardinality(DOMAIN r.items) = ItemCount
    /\ DOMAIN items \subseteq {k \in Keys : hist[k] # noWrite}
    /\ ItemCount <= Cardinality({k \in Keys : hist[k] # noWrite})

\* an Add has just replaced an expired entry that was still stored, and the
\* ItemCount is still two
C28_Witness ==
    /\ last.op = "Add"
    /\ last.err = Nil
    /\ now > 1
    /\ ItemCount = 2
    /\ \E k \in Keys : k # last.key /\ found(items, k) /\ pastDeadline(hist[k])

\* C29: the entry of a key last written with a positive resolved duration d at
\* clock value t holds the deadline t + d, which is positive and so never the
\* 0 that stands for no expiration.
C29_DeadlinePositive ==
    \A k \in Keys :
        (found(items, k) /\ hist[k].ttl)
            => /\ items[k].expiration > 0
               /\ items[k].expiration = hist[k].deadline

\* the map of the cache that received the same calls and has no sweeper: the
\* last write of every key written and not deleted or flushed since
unswept == [k \in {j \in Keys : hist[j] # noWrite} |-> asked(hist[k])]

\* key holds an unexpired entry in the cache without a sweeper
unsweptLive(key) == found(unswept, key) /\ ~expiredAt(unswept[key], now)

\* C27: whatever scans have run, Get, Add and Replace return what they return
\* on the cache without a sweeper that received the same calls at the same
\* clock values: the map is that cache's map less some of its expired entries,
\* and the whole of it when there is no sweeper; only ItemCount, which is at
\* most that cache's, can tell the two apart.
C27_SweeperTransparent ==
    /\ \A k \in DOMAIN items : found(unswept, k) /\ items[k] = unswept[k]
    /\ \A k \in (DOMAIN unswept) \ (DOMAIN items) : expiredAt(unswept[k], now)
    /\ sweeper = "none" => items = unswept
    /\ ItemCount <= Cardinality(DOMAIN unswept)
    /\ \A k \in Keys, o \in Objects, d \in Durations :
          /\ Get(k).found <=> unsweptLive(k)
          /\ Get(k).object = (IF unsweptLive(k) THEN unswept[k].object ELSE Nil)
          /\ Add(k, o, d).err = (IF unsweptLive(k) THEN ErrItemAlreadyExists ELSE Nil)
          /\ Replace(k, o, d).err = (IF unsweptLive(k) THEN Nil ELSE ErrItemNotFound)
    /\ last.op = "ItemCount" => last.n <= Cardinality(Keys)

\* an ItemCount has just returned less than the cache without a sweeper
\* holds, a scan having removed an expired entry
C27_Witness ==
    /\ last.op = "ItemCount"
    /\ last.n = 1
    /\ ItemCount = 1
    /\ Cardinality(DOMAIN unswept) = 2

\* C21: a Stop that has closed the channel returns in the end, unless a second
\* Stop brings the program down first: at once on a cache without a sweeper,
\* where the WaitGroup counter is zero from the start, and otherwise when the
\* sweeper, wherever the signal finds it, has come back to its select and
\* taken the stop case.  Neither step of Stop looks at c.mu.
C21_StopReturns ==
    /\ [](~panicked => ENABLED CallStop)
    /\ []((stopPc = "waiting" /\ sweeper = "none" /\ ~panicked)
            => ENABLED StopReturn)
    /\ (stopPc = "waiting") ~> (stopPc = "returned" \/ panicked)

\* Stop has returned on a cache whose sweeper has terminated, while one
\* goroutine holds the lock and the other is blocked in Lock
C21_Witness ==
    /\ stopPc = "returned"
    /\ sweeper = "done"
    /\ stopCalls = 1
    /\ mu.w \in Goroutines
    /\ \E g \in Goroutines : procs[g].pc = "lock"

\* C24: a goroutine that is not in a call holds no lock, and every call that
\* has started returns in the end, unless a second Stop brings the program
\* down first: it gets the lock, makes its map accesses and releases the lock,
\* by nil and by error alike, whatever the sweeper and Stop are doing.
C24_CallsReturn ==
    /\ [](\A g \in Goroutines :
             procs[g].pc = "idle" => (mu.w # g /\ g \notin mu.r))
    /\ \A g \in Goroutines :
          (procs[g].pc # "idle") ~> (procs[g].pc = "idle" \/ panicked)

\* g1 has returned ErrItemAlreadyExists from an Add and holds no lock, g2 holds
\* the lock in a Replace, and the sweeper is blocked in Lock after the stop
\* channel was closed
C24_Witness ==
    /\ procs["g1"].pc = "idle"
    /\ procs["g1"].res.err = ErrItemAlreadyExists
    /\ procs["g2"].pc = "checked"
    /\ procs["g2"].op = "Replace"
    /\ mu.w = "g2"
    /\ sweeper = "lock"
    /\ stop = "closed"

\* C25: on a cache with a sweeper, as long as Stop is not called, an entry
\* that is stored past its deadline is removed in the end unless a write gives
\* the key an unexpired entry first; and a time comes when every stored entry
\* is unexpired, so that ItemCount is the number of live entries.
C25_EventualReclamation ==
    /\ \A k \in Keys :
          (found(items, k) /\ expiredAt(lookup(items, k), now) /\ sweeper = "select")
             ~> \/ ~found(items, k)
                \/ ~expiredAt(lookup(items, k), now)
                \/ stop = "closed"
    /\ (sweeper = "select") ~> (ItemCount = ItemCountLive \/ stop = "closed")

\* a scan has removed both entries after their deadlines, the stop channel
\* still open, and an ItemCount has returned zero
C25_Witness ==
    /\ sweeper = "select"
    /\ stop = "open"
    /\ last.op = "ItemCount"
    /\ last.n = 0
    /\ \A k \in Keys : hist[k] # noWrite /\ pastDeadline(hist[k]) /\ ~found(items, k)
====
